---- MODULE Spec2Model ----
(***************************************************************************)
(* audio-summarizer: the caching pipeline of get-text.py and               *)
(* get-summary.py (AudioSource -> transcribe -> OpenAISummarizer) over a   *)
(* file system, as a state machine.  One action per step of main(); a file *)
(* write is an open (create/truncate) followed by one step per chunk, as   *)
(* copyfile() and f.write() perform it, so that a run can be killed, or    *)
(* another run can look, between the open and the last chunk.              *)
(***************************************************************************)
EXTENDS Integers, Sequences, FiniteSets, TLC

(***************************************************************************)
(* Bounds of the model.                                                    *)
(***************************************************************************)
\* invocations of get-text / get-summary per process in one behaviour
MaxRuns == 2
\* chunks a payload is written in (a payload is complete with all of them)
ChunkCount == 2
\* command-line options of one invocation that differ from their defaults
MaxOverrides == 1

Procs == {"p1", "p2"}
\* the sequential specification runs every invocation in one process
SeqProcs == {"p1"}

(***************************************************************************)
(* Command line values.  A url or path is kept in the parts the code looks *)
(* at: urlparse().scheme, the host, and the path split where endswith()    *)
(* and the youtube pattern look.                                           *)
(***************************************************************************)
LocalWav  == [scheme |-> "", host |-> "", path |-> <<"talk", ".wav">>]
RemoteMp3 == [scheme |-> "https", host |-> "example.org", path |-> <<"talk", ".mp3">>]
VideoLink == [scheme |-> "https", host |-> "www.youtube.com", path |-> <<"watch?v=", "abc">>]
TextFile  == [scheme |-> "", host |-> "", path |-> <<"notes", ".txt">>]
NoSuchFile == [scheme |-> "", host |-> "", path |-> <<"gone", ".wav">>]
Inputs == {LocalWav, RemoteMp3, VideoLink, TextFile, NoSuchFile}
\* the local paths that exist on disk when the first invocation starts
LocalFiles == {LocalWav, TextFile}

\* a timestamp is the list of its ":"-separated parts; a part is the text of
\* an integer (num) or something int() rejects.  None is the empty list.
None == <<>>
Part(n) == [num |-> TRUE, val |-> n]
T10 == <<Part(10)>>
T5 == <<Part(5)>>
T0040 == <<Part(0), Part(40)>>
\* "1:00:00:00": four parts
T1000 == <<Part(1), Part(0), Part(0), Part(0)>>
\* a part that int() rejects, such as "abc" or ""
NotInt == [num |-> FALSE, val |-> 0]
TBad == <<NotInt>>
StartArgs == {None, T10, T1000, TBad}
EndArgs == {None, T5, T0040}

\* a model path: its directory and its basename split at the dots
SmallEn == [dir |-> "./models", base |-> <<"small", "en", "bin">>]
Small == [dir |-> "./models", base |-> <<"small", "bin">>]
Base == [dir |-> "./models", base |-> <<"base", "bin">>]
ModelPaths == {SmallEn, Small, Base}

\* a prompt: its literal text and whether it holds the {text} marker
DefaultPrompt == [tpl |-> "Summarize the following text: ", marker |-> TRUE]
PlainPrompt == [tpl |-> "TL;DR ", marker |-> FALSE]
Prompts == {DefaultPrompt, PlainPrompt}

\* --cache-dir not given on the command line
NotGiven == "<not given>"
CacheDirArgs == {NotGiven, "", "."}
OpenAIModels == {"gpt-4-0125-preview", "gpt-3.5-turbo"}
MaxTokens == {999, 100}
\* temperature in tenths
Temperatures == {7, 0}
\* the credential: --openai-api-key or else OPENAI_API_KEY; "" when neither
ApiKeys == {"sk-key", ""}
Tools == {"get-text", "get-summary"}

\* the command line with every option at its argparse default
Defaults(tool, input) ==
    [tool |-> tool, input |-> input, cache_dir |-> NotGiven,
     start |-> None, end |-> None, model_path |-> SmallEn,
     prompt |-> DefaultPrompt, openai_model |-> "gpt-4-0125-preview",
     max_tokens |-> 999, temperature |-> 7, openai_api_key |-> "sk-key"]

\* the command lines that differ from one of clis in at most one option (start
\* and end are the one range handed to transcribe); get-text's parser has no
\* summarization options
OneMore(clis) ==
    UNION { {cli}
            \cup {[cli EXCEPT !.cache_dir = v] : v \in CacheDirArgs}
            \cup {[cli EXCEPT !.start = r[1], !.end = r[2]] : r \in StartArgs \X EndArgs}
            \cup {[cli EXCEPT !.model_path = v] : v \in ModelPaths}
            \cup (IF cli.tool = "get-text" THEN {}
                  ELSE {[cli EXCEPT !.prompt = v] : v \in Prompts}
                       \cup {[cli EXCEPT !.openai_model = v] : v \in OpenAIModels}
                       \cup {[cli EXCEPT !.max_tokens = v] : v \in MaxTokens}
                       \cup {[cli EXCEPT !.temperature = v] : v \in Temperatures}
                       \cup {[cli EXCEPT !.openai_api_key = v] : v \in ApiKeys})
          : cli \in clis }

RECURSIVE Overridden(_, _)
Overridden(clis, k) == IF k = 0 THEN clis ELSE Overridden(OneMore(clis), k - 1)

\* the command lines of a tool for an input: at most MaxOverrides options
\* differ from their defaults
Clis(tool, input) == Overridden({Defaults(tool, input)}, MaxOverrides)

\* argparse: --cache-dir defaults to "cache"
get_args(cli) ==
    [cli EXCEPT !.cache_dir = IF cli.cache_dir = NotGiven THEN "cache" ELSE cli.cache_dir]

(***************************************************************************)
(* Pure functions of the code.                                             *)
(***************************************************************************)
RECURSIVE Pow60(_)
Pow60(i) == IF i = 0 THEN 1 ELSE 60 * Pow60(i - 1)

\* the parts weighed without parts.reverse()
RECURSIVE MillisUnreversed(_, _)
MillisUnreversed(parts, i) ==
    IF i > Len(parts) THEN 0
    ELSE parts[i].val * Pow60(i - 1) * 1000 + MillisUnreversed(parts, i + 1)

\* timestamp_to_millis: parts reversed, part i weighs 60**i seconds; int()
\* raises ValueError on a part that is not the text of an integer
RECURSIVE MillisFrom(_, _)
MillisFrom(parts, i) ==
    IF i > Len(parts) THEN 0
    ELSE parts[Len(parts) - i + 1].val * Pow60(i - 1) * 1000 + MillisFrom(parts, i + 1)

timestamp_to_millis(timestamp) ==
    IF \E k \in 1..Len(timestamp) : ~timestamp[k].num
    THEN [err |-> TRUE, ms |-> 0]
    ELSE [err |-> FALSE, ms |-> MillisFrom(timestamp, 1)]

\* transcribe, lines 43-44: start and duration ("if range[0]": None is falsy)
StartOf(a) == IF a.start # None THEN timestamp_to_millis(a.start) ELSE [err |-> FALSE, ms |-> 0]
EndOf(a) == IF a.end # None THEN timestamp_to_millis(a.end) ELSE [err |-> FALSE, ms |-> 0]
DurationOf(a) == IF a.end # None THEN EndOf(a).ms - StartOf(a).ms ELSE 0

\* os.path.basename(model_path).split(".")[0]
ModelName(model_path) == model_path.base[1]

_is_url(url) == url.scheme \in {"http", "https"}
_is_youtube_video(url) ==
    /\ url.scheme \in {"http", "https"}
    /\ url.host \in {"www.youtube.com", "youtube.com"}
    /\ url.path[1] = "watch?v="
EndsWithTxt(input) == input.path[Len(input.path)] = ".txt"

(***************************************************************************)
(* The file system: directories and files by name.  md5 is taken as        *)
(* injective, so a hashed name is kept as the value hashed.                *)
(***************************************************************************)
\* AudioSource.__init__: cache_dir/<md5(url)>, or None without a cache_dir
NoDir == [root |-> "", sub |-> <<>>]
RootDir(root) == [root |-> root, sub |-> <<>>]
SourceDir(cache_dir, url) ==
    IF cache_dir # "" THEN [root |-> cache_dir, sub |-> <<url>>] ELSE NoDir

\* os.path.join(cache_dir, name): "name" for "" and "./name" for ".", both the
\* file of that name in the working directory
Joined(cache_dir) == IF cache_dir = "." THEN "" ELSE cache_dir
\* os.path.exists of a directory; the working directory exists
DirExists(dir, dirs_) == dir \in dirs_ \/ dir = RootDir(".")

NoFile == [kind |-> "none"]
AudioFile(dir) == [kind |-> "audio.mp3", dir |-> dir]
\* f"transcription-{start}-{duration}-{model_name}.txt"
cache_base_fname(dir, start, duration, model_name) ==
    [kind |-> "transcription", dir |-> dir, start |-> start,
     duration |-> duration, model_name |-> model_name]
\* "summary-" + md5(input + model_path + prompt + str(start) + str(end)) + ".txt"
\* joined to args.cache_dir
hash_path_of(a, prompt) ==
    [kind |-> "summary", root |-> Joined(a.cache_dir),
     to_hash |-> [input |-> a.input, model_path |-> a.model_path, prompt |-> prompt,
                  start |-> a.start, end |-> a.end]]
TmpFile(n) == [kind |-> "tmp", n |-> n]

\* payloads, in chunks
Chunks(d) == [i \in 1..ChunkCount |-> [d |-> d, i |-> i]]
Hole == [hole |-> TRUE]
IsComplete(content) ==
    /\ Len(content) = ChunkCount
    /\ "d" \in DOMAIN content[1]
    /\ content = Chunks(content[1].d)
\* write(2) of one chunk at a writer's own offset (off chunks written so far)
WriteAt(content, off, chunk) ==
    [i \in 1..(IF Len(content) > off + 1 THEN Len(content) ELSE off + 1) |->
        IF i = off + 1 THEN chunk
        ELSE IF i <= Len(content) THEN content[i] ELSE Hole]

\* what the collaborators produce
AudioOf(url) == Chunks([audio |-> url])
WhisperText(heard, a) ==
    Chunks([heard |-> heard, offset_ms |-> StartOf(a).ms, duration_ms |-> DurationOf(a),
            model |-> a.model_path])
\* prompt.format(text=text) with the marker, prompt + text without it
ResolvePrompt(prompt, text) == [tpl |-> prompt.tpl, marker |-> prompt.marker, text |-> text]
Completion(prompt, a) ==
    Chunks([prompt |-> prompt, model |-> a.openai_model, max_tokens |-> a.max_tokens,
            temperature |-> a.temperature])

VARIABLES
    input,   \* the -i argument of the behaviour's invocations
    local,   \* the local paths that exist on disk (os.path.exists)
    pc,      \* where each process is in main()
    args,    \* the command line of each running invocation
    loc,     \* the invocation's objects: the AudioSource fields and main's locals
    files,   \* the files that exist, name -> content
    dirs,    \* the cache directories that exist
    ntmp,    \* temporary files created so far
    runs,    \* invocations started by each process
    hist,    \* the invocations that ended by themselves, in order
    call,    \* a library function called on its own: its name and arguments
    ret      \* and what the call has come to so far

\* the state of the command line tools
mainvars == <<input, local, pc, args, loc, files, dirs, ntmp, runs, hist>>
vars == <<mainvars, call, ret>>

NoText == <<>>
NoPrompt == [tpl |-> "", marker |-> FALSE, text |-> NoText]
Idle ==
    [is_open |-> FALSE, tmpfile |-> NoFile, cache_dir |-> NoDir,
     text |-> NoText, prompt |-> NoPrompt, hash_path |-> NoFile, summary |-> NoText,
     wbuf |-> <<>>, woff |-> 0, wfile |-> NoFile,
     downloads |-> 0, engine |-> 0, requests |-> 0, ops |-> {},
     audio |-> <<>>, entered |-> FALSE, created |-> NoFile,
     audio_hit |-> FALSE, text_hit |-> FALSE, dirty_hit |-> FALSE,
     transcribed |-> FALSE, listed |-> FALSE, mp3_files |-> 0]
NoArgs == Defaults("get-text", LocalWav)

Exists(f) == f \in DOMAIN files
Put(f, content) == (f :> content) @@ files

\* no library function is called on its own
NoCall == [fn |-> "none"]

Init ==
    /\ input \in Inputs
    /\ local = LocalFiles
    /\ call = NoCall
    /\ ret = NoCall
    /\ pc = [p \in Procs |-> "idle"]
    /\ args = [p \in Procs |-> NoArgs]
    /\ loc = [p \in Procs |-> Idle]
    /\ files = <<>>
    /\ dirs \in {{}, {RootDir("cache")}}
    /\ ntmp = 0
    /\ runs = [p \in Procs |-> 0]
    /\ hist = <<>>

A(p) == get_args(args[p])

\* the process is gone: it is idle again
Ended(p) ==
    /\ pc' = [pc EXCEPT ![p] = "idle"]
    /\ args' = [args EXCEPT ![p] = NoArgs]
    /\ loc' = [loc EXCEPT ![p] = Idle]

\* the invocation ends, normally or by an exception: what it did is appended
\* to hist
EndRun(p, status, out, l) ==
    /\ hist' = Append(hist,
                  [proc |-> p, run |-> runs[p], cli |-> args[p],
                   valid |-> (_is_url(input) \/ input \in local),
                   status |-> status, at |-> pc[p], out |-> out,
                   listed |-> l.listed, mp3_files |-> l.mp3_files, summary |-> l.summary,
                   is_open |-> l.is_open, tmpfile |-> l.tmpfile, created |-> l.created,
                   entered |-> l.entered, audio |-> l.audio,
                   transcribed |-> l.transcribed, text |-> l.text,
                   hash_path |-> l.hash_path,
                   audio_hit |-> l.audio_hit, text_hit |-> l.text_hit,
                   dirty_hit |-> l.dirty_hit,
                   downloads |-> l.downloads, engine |-> l.engine,
                   requests |-> l.requests, ops |-> l.ops])
    /\ Ended(p)

\* AudioSource.__exit__: close the file object, tmpfile = None, is_open = False
Exited(l) == [l EXCEPT !.is_open = FALSE, !.tmpfile = NoFile]

\* AudioSource.get_audio_path: tmpfile.name, or RuntimeError when not open
get_audio_path(l) ==
    IF l.is_open THEN [err |-> FALSE, path |-> l.tmpfile]
    ELSE [err |-> TRUE, path |-> NoFile]

\* another process has this file open for writing and is not done
BeingWritten(p, f) ==
    \E q \in Procs \ {p} :
        \/ pc[q] = "save_write" /\ AudioFile(loc[q].cache_dir) = f
        \/ pc[q] = "cache_text_write" /\ loc[q].wfile = f
        \/ pc[q] = "cache_summary_write" /\ loc[q].wfile = f

(***************************************************************************)
(* main(): get_args(), then the AudioSource is constructed (get-text.py    *)
(* line 38, get-summary.py line 65) or, for a .txt input of get-summary,   *)
(* the text file is read.                                                  *)
(***************************************************************************)
Main(p, cli) ==
    /\ pc[p] = "idle"
    /\ args' = [args EXCEPT ![p] = cli]
    /\ LET a == get_args(cli) IN
       IF cli.tool = "get-summary" /\ EndsWithTxt(a.input)
       THEN /\ pc' = [pc EXCEPT ![p] = "read_text"]
            /\ loc' = [loc EXCEPT ![p] = Idle]
       ELSE /\ pc' = [pc EXCEPT ![p] = "enter"]
            /\ loc' = [loc EXCEPT ![p] =
                         [Idle EXCEPT !.cache_dir = SourceDir(a.cache_dir, a.input)]]
    /\ runs' = [runs EXCEPT ![p] = @ + 1]
    /\ UNCHANGED <<input, local, call, ret, files, dirs, ntmp, hist>>

Start(p) ==
    /\ runs[p] < MaxRuns
    /\ \E tool \in Tools : \E cli \in Clis(tool, input) : Main(p, cli)

\* _is_cached looking for a file name that _save_to_cache does not write
_is_cached_other_name(l) ==
    l.cache_dir # NoDir /\ Exists([kind |-> "audio.wav", dir |-> l.cache_dir])

\* AudioSource._is_cached
_is_cached(l) == l.cache_dir # NoDir /\ Exists(AudioFile(l.cache_dir))

\* AudioSource.__enter__, lines 53-60: a cached audio.mp3 is opened, or else
\* a NamedTemporaryFile(delete=False) is created for the download
Enter(p) ==
    /\ pc[p] = "enter"
    /\ LET l == loc[p]
           looked == IF l.cache_dir # NoDir THEN {"audio exists"} ELSE {}
       IN IF _is_cached(l)
          THEN /\ loc' = [loc EXCEPT ![p] =
                            [l EXCEPT !.is_open = TRUE,
                                      !.tmpfile = AudioFile(l.cache_dir),
                                      !.ops = @ \cup looked \cup {"audio read"},
                                      !.audio_hit = TRUE,
                                      !.dirty_hit = BeingWritten(p, AudioFile(l.cache_dir)),
                                      !.entered = TRUE,
                                      !.audio = files[AudioFile(l.cache_dir)]]]
               /\ pc' = [pc EXCEPT ![p] = "transcribe"]
               /\ UNCHANGED <<files, ntmp>>
          ELSE /\ loc' = [loc EXCEPT ![p] =
                            [l EXCEPT !.is_open = TRUE,
                                      !.tmpfile = TmpFile(ntmp + 1),
                                      !.created = TmpFile(ntmp + 1),
                                      !.ops = @ \cup looked]]
               /\ files' = Put(TmpFile(ntmp + 1), <<>>)
               /\ ntmp' = ntmp + 1
               /\ pc' = [pc EXCEPT ![p] = "download"]
    /\ UNCHANGED <<input, local, call, ret, args, dirs, runs, hist>>

\* the .mp3 files that yt-dlp's extraction can leave in tmpdir
Mp3Counts == {0, 1, 2}

\* the assertion letting any non-empty listing pass
SomeMp3(mp3_files) == mp3_files >= 1

\* _download_youtube_video, line 122: assert len(mp3_files) == 1
OneMp3(mp3_files) == mp3_files = 1

\* what AudioSource.download can come to for a url: the exception raised, or
\* "ok" with the audio at dest; for a video, with the .mp3 files listed
DownloadOutcomes(url) ==
    IF _is_url(url)
    THEN IF _is_youtube_video(url)
         THEN {[outcome |-> "DownloadError", listed |-> FALSE, mp3_files |-> 0]}
              \cup {[outcome |-> IF OneMp3(n) THEN "ok" ELSE "AssertionError",
                     listed |-> TRUE, mp3_files |-> n] : n \in Mp3Counts}
         ELSE {[outcome |-> o, listed |-> FALSE, mp3_files |-> 0] : o \in {"ok", "URLError"}}
    ELSE {[outcome |-> IF url \in local THEN "ok" ELSE "ValueError",
           listed |-> FALSE, mp3_files |-> 0]}

\* the download's destination being the cache entry itself
DownloadDestInCache(l) ==
    IF l.cache_dir # NoDir THEN AudioFile(l.cache_dir) ELSE l.tmpfile

\* __enter__, line 63: self.download(self.tmpfile.name)
DownloadDest(l) == l.tmpfile

\* AudioSource.download (called by __enter__, line 63).  A failure is raised
\* out of __enter__: __exit__ does not run.  An interrupted urlretrieve leaves
\* what it had written at dest.
Download(p) ==
    /\ pc[p] = "download"
    /\ LET l == loc[p]
           url == A(p).input
       IN \E o \in DownloadOutcomes(url) :
            LET called == [l EXCEPT !.downloads = @ + 1, !.listed = o.listed,
                                    !.mp3_files = o.mp3_files]
            IN IF o.outcome = "ok"
               THEN /\ files' = Put(DownloadDest(l), AudioOf(url))
                    /\ loc' = [loc EXCEPT ![p] = called]
                    /\ pc' = [pc EXCEPT ![p] = "save"]
                    /\ UNCHANGED <<args, hist>>
               ELSE IF o.outcome = "URLError"
               THEN /\ \E k \in 0..(ChunkCount - 1) :
                           files' = Put(DownloadDest(l), SubSeq(AudioOf(url), 1, k))
                    /\ EndRun(p, o.outcome, NoText, called)
               ELSE /\ UNCHANGED files
                    /\ EndRun(p, o.outcome, NoText,
                              IF o.outcome = "ValueError" THEN l ELSE called)
    /\ UNCHANGED <<input, local, call, ret, dirs, ntmp, runs>>

\* the written file is closed.  After _save_to_cache __enter__ returns, and the
\* with-block starts with the audio at get_audio_path()
Closed(l) ==
    IF l.wfile.kind = "audio.mp3"
    THEN [l EXCEPT !.entered = TRUE, !.audio = l.wbuf, !.wbuf = <<>>, !.woff = 0,
                   !.wfile = NoFile]
    ELSE IF l.wfile.kind = "transcription"
    THEN [l EXCEPT !.transcribed = TRUE, !.wbuf = <<>>, !.woff = 0, !.wfile = NoFile]
    ELSE [l EXCEPT !.wbuf = <<>>, !.woff = 0, !.wfile = NoFile]

\* one more chunk of loc[p].wbuf written to wfile; after the last one the
\* file is closed and main() goes on at `next`
WriteChunk(p, next) ==
    LET l == loc[p]
        f == l.wfile
        last == l.woff + 1 >= Len(l.wbuf)
        w == [l EXCEPT !.woff = @ + 1]
    IN /\ files' = Put(f, WriteAt(IF Exists(f) THEN files[f] ELSE <<>>, l.woff,
                                  l.wbuf[l.woff + 1]))
       /\ loc' = [loc EXCEPT ![p] = IF last THEN Closed(w) ELSE w]
       /\ pc' = [pc EXCEPT ![p] = IF last THEN next ELSE @]
       /\ UNCHANGED <<input, local, call, ret, args, dirs, ntmp, runs, hist>>

\* AudioSource._save_to_cache, lines 79-81: makedirs, then copyfile opens
\* <cache_dir>/audio.mp3 for writing
SaveToCache(p) ==
    /\ pc[p] = "save"
    /\ LET l == loc[p]
           src == files[l.tmpfile]
       IN IF l.is_open /\ l.tmpfile # NoFile /\ l.cache_dir # NoDir
          THEN /\ dirs' = dirs \cup {RootDir(l.cache_dir.root), l.cache_dir}
               /\ files' = Put(AudioFile(l.cache_dir), <<>>)
               /\ loc' = [loc EXCEPT ![p] =
                            [l EXCEPT !.wbuf = src, !.woff = 0,
                                      !.wfile = AudioFile(l.cache_dir),
                                      !.ops = @ \cup {"audio write"}]]
               /\ pc' = [pc EXCEPT ![p] = "save_write"]
          ELSE /\ loc' = [loc EXCEPT ![p] = [l EXCEPT !.entered = TRUE, !.audio = src]]
               /\ pc' = [pc EXCEPT ![p] = "transcribe"]
               /\ UNCHANGED <<files, dirs>>
    /\ UNCHANGED <<input, local, call, ret, args, ntmp, runs, hist>>

\* copyfile's copy loop
SaveWrite(p) ==
    /\ pc[p] = "save_write"
    /\ WriteChunk(p, "transcribe")

\* transcribe's cache switch: both mains pass cache=bool(args.cache_dir)
CacheOn(a) == a.cache_dir # ""

\* the transcription's cache file of an invocation (transcribe, lines 47-49)
TextFileOf(l, a) ==
    cache_base_fname(l.cache_dir, StartOf(a).ms, DurationOf(a), ModelName(a.model_path))

\* transcribe going to the engine without its cache lookup
TranscribeUncached(p) ==
    /\ pc[p] = "transcribe"
    /\ pc' = [pc EXCEPT ![p] = "whisper"]
    /\ UNCHANGED <<input, local, call, ret, args, loc, files, dirs, ntmp, runs, hist>>

\* transcribe, lines 40-52: the range is parsed and checked, then a cached
\* transcription is read.  An exception leaves the with-block through __exit__.
Transcribe(p) ==
    /\ pc[p] = "transcribe"
    /\ LET l == loc[p]
           a == A(p)
           f == TextFileOf(l, a)
           looked == [l EXCEPT !.ops = @ \cup {"transcription exists"}]
       IN IF ~l.is_open
          THEN EndRun(p, "RuntimeError", NoText, Exited(l))
          ELSE IF StartOf(a).err \/ EndOf(a).err \/ DurationOf(a) < 0
          THEN EndRun(p, "ValueError", NoText, Exited(l))
          ELSE IF CacheOn(a) /\ l.cache_dir # NoDir
          THEN IF Exists(f)
               THEN /\ loc' = [loc EXCEPT ![p] =
                                 [looked EXCEPT !.text = files[f],
                                                !.transcribed = TRUE,
                                                !.text_hit = TRUE,
                                                !.dirty_hit = @ \/ BeingWritten(p, f),
                                                !.ops = @ \cup {"transcription read"}]]
                    /\ pc' = [pc EXCEPT ![p] = "transcribed"]
                    /\ UNCHANGED <<args, hist>>
               ELSE /\ loc' = [loc EXCEPT ![p] = looked]
                    /\ pc' = [pc EXCEPT ![p] = "whisper"]
                    /\ UNCHANGED <<args, hist>>
          ELSE /\ pc' = [pc EXCEPT ![p] = "whisper"]
               /\ UNCHANGED <<args, loc, hist>>
    /\ UNCHANGED <<input, local, call, ret, files, dirs, ntmp, runs>>

\* transcribe, lines 70-82: whisper.cpp runs on get_audio_path() and its
\* transcription.txt is read; a non-zero return code raises ValueError
Whisper(p) ==
    /\ pc[p] = "whisper"
    /\ LET l == loc[p]
           called == [l EXCEPT !.engine = @ + 1]
       IN \E returncode \in {0, 1} :
            IF returncode # 0
            THEN EndRun(p, "ValueError", NoText, Exited(called))
            ELSE /\ loc' = [loc EXCEPT ![p] =
                              [called EXCEPT !.text = WhisperText(files[l.tmpfile], A(p))]]
                 /\ pc' = [pc EXCEPT ![p] = "cache_text"]
                 /\ UNCHANGED <<args, hist>>
    /\ UNCHANGED <<input, local, call, ret, files, dirs, ntmp, runs>>

\* transcribe returning the text without writing the cache file
CacheTextUnwritten(p) ==
    /\ pc[p] = "cache_text"
    /\ loc' = [loc EXCEPT ![p] = [loc[p] EXCEPT !.transcribed = TRUE]]
    /\ pc' = [pc EXCEPT ![p] = "transcribed"]
    /\ UNCHANGED <<input, local, call, ret, args, files, dirs, ntmp, runs, hist>>

\* transcribe, lines 85-86: the cache file is opened for writing
CacheText(p) ==
    /\ pc[p] = "cache_text"
    /\ LET l == loc[p]
           a == A(p)
       IN IF CacheOn(a) /\ l.cache_dir # NoDir /\ DirExists(l.cache_dir, dirs)
          THEN /\ files' = Put(TextFileOf(l, a), <<>>)
               /\ loc' = [loc EXCEPT ![p] =
                            [l EXCEPT !.wbuf = l.text, !.woff = 0,
                                      !.wfile = TextFileOf(l, a),
                                      !.ops = @ \cup {"transcription write"}]]
               /\ pc' = [pc EXCEPT ![p] = "cache_text_write"]
          ELSE /\ loc' = [loc EXCEPT ![p] = [l EXCEPT !.transcribed = TRUE]]
               /\ pc' = [pc EXCEPT ![p] = "transcribed"]
               /\ UNCHANGED files
    /\ UNCHANGED <<input, local, call, ret, args, dirs, ntmp, runs, hist>>

\* transcribe, line 87: f.write(transcription), then the file is closed
CacheTextWrite(p) ==
    /\ pc[p] = "cache_text_write"
    /\ WriteChunk(p, "transcribed")

\* get-text.py, line 43: the text is printed; the with-block ends (__exit__)
OutputText(p) ==
    /\ pc[p] = "transcribed"
    /\ args[p].tool = "get-text"
    /\ EndRun(p, "ok", loc[p].text, Exited(loc[p]))
    /\ UNCHANGED <<input, local, call, ret, files, dirs, ntmp, runs>>

\* get-summary.py, lines 69-84: the prompt is resolved, the summary's file
\* name derived and looked up; a cached summary is printed and exit(0) leaves
\* the with-block; otherwise the with-block ends
Lookup(p) ==
    /\ pc[p] = "transcribed"
    /\ args[p].tool = "get-summary"
    /\ LET l == loc[p]
           a == A(p)
           prompt == ResolvePrompt(a.prompt, l.text)
           hash_path == hash_path_of(a, prompt)
           looked == [l EXCEPT !.prompt = prompt, !.hash_path = hash_path,
                               !.ops = @ \cup {"summary exists"}]
       IN IF Exists(hash_path)
          THEN EndRun(p, "exit(0)", files[hash_path],
                      Exited([looked EXCEPT !.ops = @ \cup {"summary read"}]))
          ELSE /\ loc' = [loc EXCEPT ![p] = Exited(looked)]
               /\ pc' = [pc EXCEPT ![p] = "summarize"]
               /\ UNCHANGED <<args, hist>>
    /\ UNCHANGED <<input, local, call, ret, files, dirs, ntmp, runs>>

\* get-summary.py, lines 57-63: a .txt input is read and the prompt resolved
\* (hash_path is not assigned on this branch)
ReadText(p) ==
    /\ pc[p] = "read_text"
    /\ LET l == loc[p]
           a == A(p)
           text == Chunks([file |-> a.input])
       IN IF a.input \in local
          THEN /\ loc' = [loc EXCEPT ![p] =
                            [l EXCEPT !.text = text,
                                      !.prompt = ResolvePrompt(a.prompt, text)]]
               /\ pc' = [pc EXCEPT ![p] = "summarize"]
               /\ UNCHANGED <<args, hist>>
          ELSE EndRun(p, "FileNotFoundError", NoText, l)
    /\ UNCHANGED <<input, local, call, ret, files, dirs, ntmp, runs>>

\* get-summary.py, lines 87-88: OpenAISummarizer(api_key) raises ValueError
\* without a credential; summarize() sends the prompt to args.openai_model
Summarize(p) ==
    /\ pc[p] = "summarize"
    /\ LET l == loc[p]
           a == A(p)
           called == [l EXCEPT !.requests = @ + 1]
       IN IF a.openai_api_key = ""
          THEN EndRun(p, "ValueError", NoText, l)
          ELSE \E answered \in BOOLEAN :
                 IF answered
                 THEN /\ loc' = [loc EXCEPT ![p] =
                                   [called EXCEPT !.summary = Completion(l.prompt, a)]]
                      /\ pc' = [pc EXCEPT ![p] = "cache_summary"]
                      /\ UNCHANGED <<args, hist>>
                 ELSE EndRun(p, "APIError", NoText, called)
    /\ UNCHANGED <<input, local, call, ret, files, dirs, ntmp, runs>>

\* main() going on to the output without writing the summary's cache file
CacheSummaryUnwritten(p) ==
    /\ pc[p] = "cache_summary"
    /\ pc' = [pc EXCEPT ![p] = "summarized"]
    /\ UNCHANGED <<input, local, call, ret, args, loc, files, dirs, ntmp, runs, hist>>

\* get-summary.py, lines 91-92: the summary's cache file is opened for writing
\* (hash_path is unbound after the .txt branch: NameError)
CacheSummary(p) ==
    /\ pc[p] = "cache_summary"
    /\ LET l == loc[p]
           a == A(p)
       IN IF a.cache_dir # "" /\ DirExists(RootDir(a.cache_dir), dirs)
          THEN IF l.hash_path = NoFile
               THEN /\ EndRun(p, "NameError", NoText, l)
                    /\ UNCHANGED files
               ELSE /\ files' = Put(l.hash_path, <<>>)
                    /\ loc' = [loc EXCEPT ![p] =
                                 [l EXCEPT !.wbuf = l.summary, !.woff = 0,
                                           !.wfile = l.hash_path,
                                           !.ops = @ \cup {"summary write"}]]
                    /\ pc' = [pc EXCEPT ![p] = "cache_summary_write"]
                    /\ UNCHANGED <<args, hist>>
          ELSE /\ pc' = [pc EXCEPT ![p] = "summarized"]
               /\ UNCHANGED <<args, loc, files, hist>>
    /\ UNCHANGED <<input, local, call, ret, dirs, ntmp, runs>>

\* get-summary.py, line 93: f.write(summary), then the file is closed
CacheSummaryWrite(p) ==
    /\ pc[p] = "cache_summary_write"
    /\ WriteChunk(p, "summarized")

\* get-summary.py, line 96: the summary is printed
OutputSummary(p) ==
    /\ pc[p] = "summarized"
    /\ EndRun(p, "ok", loc[p].summary, loc[p])
    /\ UNCHANGED <<input, local, call, ret, files, dirs, ntmp, runs>>

\* the process is terminated by a signal at any point of main(): nothing of
\* the program runs any more
Kill(p) ==
    /\ pc[p] # "idle"
    /\ Ended(p)
    /\ UNCHANGED <<input, local, call, ret, files, dirs, ntmp, runs, hist>>

\* between two invocations the local input file is deleted
Unlink ==
    /\ \A p \in Procs : pc[p] = "idle"
    /\ hist # <<>>
    /\ input \in local
    /\ local' = local \ {input}
    /\ UNCHANGED <<input, call, ret, pc, args, loc, files, dirs, ntmp, runs, hist>>

\* a step of get-text.py's main(), all of them steps of get-summary.py's too
\* but the output
TextStep(p) ==
    \/ Enter(p) \/ Download(p) \/ SaveToCache(p) \/ SaveWrite(p)
    \/ Transcribe(p) \/ Whisper(p) \/ CacheText(p) \/ CacheTextWrite(p)
    \/ OutputText(p)

\* a step of either main()
Step(p) ==
    \/ TextStep(p)
    \/ Lookup(p) \/ ReadText(p) \/ Summarize(p)
    \/ CacheSummary(p) \/ CacheSummaryWrite(p) \/ OutputSummary(p)

\* invocations one after the other, each of which may be killed
Next == (\E p \in SeqProcs : Start(p) \/ Step(p) \/ Kill(p)) \/ Unlink
Spec == Init /\ [][Next]_vars

\* one invocation of get-text in each of two processes, their steps interleaved
StartOnce(p) ==
    /\ runs[p] = 0
    /\ \E cli \in Clis("get-text", input) : Main(p, cli)

NextConc == \E p \in Procs : StartOnce(p) \/ TextStep(p)
SpecConc == Init /\ [][NextConc]_vars

(***************************************************************************)
(* The library functions called on their own, with no tool running.        *)
(***************************************************************************)
NoMain ==
    /\ input = LocalWav
    /\ local = LocalFiles
    /\ pc = [p \in Procs |-> "idle"]
    /\ args = [p \in Procs |-> NoArgs]
    /\ loc = [p \in Procs |-> Idle]
    /\ files = <<>>
    /\ dirs = {}
    /\ ntmp = 0
    /\ runs = [p \in Procs |-> 0]
    /\ hist = <<>>

\* the timestamps called with: one to three ":"-separated parts, and four
\* parts with a small leading one
PartValues == {0, 1, 30, 59, 90}
Parts == {Part(n) : n \in PartValues} \cup {NotInt}
Timestamps ==
    UNION {[1..n -> Parts] : n \in 1..3}
    \cup {<<d>> \o t : d \in {Part(0), Part(1), NotInt}, t \in [1..3 -> Parts]}

InitTime ==
    /\ NoMain
    /\ call \in {[fn |-> "timestamp_to_millis", timestamp |-> t] : t \in Timestamps}
    /\ ret = NoCall

\* timestamp_to_millis(timestamp) returns or raises
ParseTimestamp ==
    /\ call.fn = "timestamp_to_millis"
    /\ ret = NoCall
    /\ ret' = timestamp_to_millis(call.timestamp)
    /\ UNCHANGED <<mainvars, call>>

NextTime == ParseTimestamp
SpecTime == InitTime /\ [][NextTime]_vars

(***************************************************************************)
(* OpenAISummarizer.summarize called on its own.  A text is kept as its     *)
(* token counts under the encodings tiktoken has for the models.           *)
(***************************************************************************)
\* get_model's table, in the dict's order
models_contexts ==
    << [model |-> "text-davinci-003", context_length |-> 4097],
       [model |-> "gpt-3.5-turbo", context_length |-> 4096],
       [model |-> "gpt-3.5-turbo-16k", context_length |-> 16384],
       [model |-> "gpt-4", context_length |-> 8192],
       [model |-> "gpt-4-32k", context_length |-> 32768],
       [model |-> "gpt-4-turbo", context_length |-> 128000] >>

\* tiktoken.encoding_for_model
encoding_for_model(model) ==
    IF model = "text-davinci-003" THEN "p50k_base" ELSE "cl100k_base"
\* len(encoding.encode(text))
num_tokens(text, model) == text[encoding_for_model(model)]

Texts ==
    { [p50k_base |-> 1100, cl100k_base |-> 1000],
      [p50k_base |-> 3098, cl100k_base |-> 3097],
      [p50k_base |-> 3300, cl100k_base |-> 3098],
      [p50k_base |-> 4200, cl100k_base |-> 4000],
      [p50k_base |-> 16000, cl100k_base |-> 15385],
      [p50k_base |-> 33000, cl100k_base |-> 32000],
      [p50k_base |-> 140000, cl100k_base |-> 127500] }

\* model=None
NoModel == ""
ModelArgs == {NoModel} \cup {models_contexts[k].model : k \in DOMAIN models_contexts}
             \cup OpenAIModels

\* the models of the table that hold the text and the response
Fitting(text, response_tokens) ==
    {k \in DOMAIN models_contexts :
        num_tokens(text, models_contexts[k].model) + response_tokens
            <= models_contexts[k].context_length}

\* OpenAISummarizer.get_model: the first model of the table that fits
get_model(text, response_tokens) ==
    LET fits == Fitting(text, response_tokens)
    IN IF fits = {}
       THEN [err |-> TRUE, model |-> NoModel]
       ELSE [err |-> FALSE,
             model |-> models_contexts[CHOOSE k \in fits : \A m \in fits : k <= m].model]

InitSum ==
    /\ NoMain
    /\ call \in {[fn |-> "summarize", text |-> t, max_tokens |-> n, model |-> m] :
                    t \in Texts, n \in MaxTokens, m \in ModelArgs}
    /\ ret = NoCall

\* summarize, line 52: model = model or self.get_model(text, max_tokens)
PickModel ==
    /\ call.fn = "summarize"
    /\ ret = NoCall
    /\ LET chosen == get_model(call.text, call.max_tokens)
       IN ret' = IF call.model # NoModel
                 THEN [stage |-> "model", model |-> call.model]
                 ELSE IF chosen.err
                 THEN [stage |-> "ValueError", model |-> NoModel]
                 ELSE [stage |-> "model", model |-> chosen.model]
    /\ UNCHANGED <<mainvars, call>>

\* summarize, lines 53-64: the request is sent to the completions or the
\* chat completions endpoint
Create ==
    /\ call.fn = "summarize"
    /\ ret # NoCall
    /\ ret.stage = "model"
    /\ ret' = [stage |-> "sent", model |-> ret.model,
               endpoint |-> IF ret.model \in {"text-davinci-003"}
                             THEN "completions" ELSE "chat.completions"]
    /\ UNCHANGED <<mainvars, call>>

NextSum == PickModel \/ Create
SpecSum == InitSum /\ [][NextSum]_vars

(***************************************************************************)
(* What the invocations in hist did, for the properties below.             *)
(***************************************************************************)
Ran == DOMAIN hist
ArgsOf(i) == get_args(hist[i].cli)
\* both invocations used the same, active cache directory (the input is the
\* behaviour's)
SameCache(i, j) == ArgsOf(i).cache_dir # "" /\ ArgsOf(i).cache_dir = ArgsOf(j).cache_dir
\* the normalized start offset, the normalized duration and the model
RangeAndModel(i) == <<StartOf(ArgsOf(i)).ms, DurationOf(ArgsOf(i)), ArgsOf(i).model_path>>
\* the transcription's cache file of an invocation
EntryOf(i) ==
    cache_base_fname(SourceDir(ArgsOf(i).cache_dir, ArgsOf(i).input),
                     StartOf(ArgsOf(i)).ms, DurationOf(ArgsOf(i)),
                     ModelName(ArgsOf(i).model_path))
\* the text an invocation got from transcribe was produced by the engine with
\* the invocation's own offset, duration and model
MadeWithOwn(i) ==
    (Len(hist[i].text) > 0 /\ "d" \in DOMAIN hist[i].text[1])
    => <<hist[i].text[1].d.offset_ms, hist[i].text[1].d.duration_ms,
         hist[i].text[1].d.model>> = RangeAndModel(i)
Finished(i) == hist[i].status \in {"ok", "exit(0)"}
AudioInput == ~EndsWithTxt(input)
\* the end timestamp is earlier than the start timestamp
EndBeforeStart(i) ==
    /\ hist[i].cli.start # None /\ hist[i].cli.end # None
    /\ EndOf(ArgsOf(i)).ms < StartOf(ArgsOf(i)).ms
\* the summarization parameters of the two command lines differ, all else equal
DifferInSummarization(i, j) ==
    /\ hist[i].cli.tool = "get-summary" /\ hist[j].cli.tool = "get-summary"
    /\ [hist[i].cli EXCEPT !.openai_model = "", !.max_tokens = 0, !.temperature = 0]
       = [hist[j].cli EXCEPT !.openai_model = "", !.max_tokens = 0, !.temperature = 0]
    /\ hist[i].cli # hist[j].cli

\* C1: of two entries of AudioSource in sequence with the same input and the
\* same cache directory, the second invokes no download, extraction or copy
\* and is served the cached audio, whose bytes are those of the first entry;
\* the first entry invoked the collaborator once unless it was served from
\* the cache itself.
C1_AcquisitionIdempotent ==
    \A i, j \in Ran :
        (i < j /\ hist[i].entered /\ hist[j].entered /\ SameCache(i, j))
        => /\ hist[j].downloads = 0
           /\ hist[j].audio_hit
           /\ hist[j].audio = hist[i].audio
           /\ (~hist[i].audio_hit => hist[i].downloads = 1)

\* a first entry that downloaded, and a second one served the complete audio
\* from the cache
C1_Witness ==
    \E i, j \in Ran :
        /\ i < j /\ hist[i].entered /\ hist[j].entered /\ SameCache(i, j)
        /\ ~hist[i].audio_hit /\ hist[i].downloads = 1
        /\ hist[j].audio_hit /\ IsComplete(hist[j].audio)

\* C2: cache writes are all-or-nothing: whatever was interrupted before, an
\* entry that an invocation takes as a hit (audio, transcription or summary)
\* holds the complete payload of one finished write.
C2_HitsAreComplete ==
    \A i \in Ran :
        /\ hist[i].audio_hit => IsComplete(hist[i].audio)
        /\ hist[i].text_hit => IsComplete(hist[i].text)
        /\ hist[i].status = "exit(0)" => IsComplete(hist[i].out)

\* C3: two concurrent invocations on the same input: neither takes a hit on
\* an audio or transcription entry that the other has created and not
\* finished writing, and when both are done every entry is the complete
\* payload of one writer.
C3_NoHitOnUnfinishedEntry ==
    /\ \A p \in Procs : ~loc[p].dirty_hit
    /\ \A i \in Ran : ~hist[i].dirty_hit
    /\ (\A p \in Procs : pc[p] = "idle")
       => \A f \in DOMAIN files :
            f.kind \in {"audio.mp3", "transcription"} => IsComplete(files[f])

\* C4: two transcribe calls on the same audio artifact whose normalized start,
\* normalized duration or model differ use distinct cache entries, and the
\* text each returns was produced with its own offset, duration and model.
C4_EntriesSeparated ==
    \A i, j \in Ran :
        (i < j /\ hist[i].transcribed /\ hist[j].transcribed /\ SameCache(i, j)
         /\ RangeAndModel(i) # RangeAndModel(j))
        => /\ EntryOf(i) # EntryOf(j)
           /\ MadeWithOwn(j)

\* C5: two finished get-summary runs on an audio input that differ in the
\* summarization model, the maximum output length or the temperature (all
\* else equal) derived different summary keys, and the second called the
\* summarization service.
C5_SummaryKeyCoversParameters ==
    \A i, j \in Ran :
        (i < j /\ AudioInput /\ DifferInSummarization(i, j)
         /\ Finished(i) /\ Finished(j))
        => /\ hist[i].hash_path # hist[j].hash_path
           /\ hist[j].requests = 1

\* C6: a range whose end is earlier than its start ends the invocation (on an
\* input that can be acquired) with the validation error before any stage
\* ran: nothing was downloaded, no cache entry was looked up, read or written,
\* and no temporary file was created.
C6_RangeRejectedFirst ==
    \A i \in Ran :
        (EndBeforeStart(i) /\ hist[i].valid
         /\ (AudioInput \/ hist[i].cli.tool = "get-text"))
        => /\ hist[i].status = "ValueError"
           /\ hist[i].downloads = 0
           /\ hist[i].ops = {}
           /\ hist[i].created = NoFile

\* C7: when an invocation has ended, on any path, the temporary file that its
\* AudioSource created for the download no longer exists.
C7_TemporaryFileReleased ==
    \A i \in Ran : hist[i].created # NoFile => ~Exists(hist[i].created)

\* C8: a transcribe call that invoked the engine with the cache enabled has
\* stored the text under the derived entry when it returns; and of two
\* transcribe calls that returned with the same artifact, start, duration and
\* model, the later one invokes no engine and returns the text of the earlier
\* one, which invoked the engine once unless it was a hit itself.
C8_TranscriptionIdempotent ==
    /\ \A p \in Procs :
         (pc[p] = "transcribed" /\ loc[p].engine = 1 /\ CacheOn(A(p)))
         => /\ Exists(TextFileOf(loc[p], A(p)))
            /\ files[TextFileOf(loc[p], A(p))] = loc[p].text
    /\ \A i, j \in Ran :
         (i < j /\ hist[i].transcribed /\ hist[j].transcribed /\ SameCache(i, j)
          /\ RangeAndModel(i) = RangeAndModel(j))
         => /\ hist[j].engine = 0
            /\ hist[j].text_hit
            /\ hist[j].text = hist[i].text
            /\ (~hist[i].text_hit => hist[i].engine = 1)

\* a transcribe call that missed and invoked the engine, then a call with the
\* same range and model that was served its complete text
C8_Witness ==
    \E i, j \in Ran :
        /\ i < j /\ hist[i].transcribed /\ hist[j].transcribed /\ SameCache(i, j)
        /\ RangeAndModel(i) = RangeAndModel(j)
        /\ ~hist[i].text_hit /\ hist[i].engine = 1
        /\ hist[j].text_hit /\ IsComplete(hist[j].text)

\* C9: of two get-summary runs in sequence with identical arguments on an
\* audio input and an active cache directory, the first of which finished,
\* the second makes no summarization request and outputs the summary of the
\* first, which made one request unless it was served from the cache itself.
C9_SummaryHitSkipsService ==
    \A i, j \in Ran :
        (i < j /\ AudioInput /\ hist[i].cli.tool = "get-summary"
         /\ hist[i].cli = hist[j].cli /\ SameCache(i, j) /\ Finished(i))
        => /\ hist[j].status = "exit(0)"
           /\ hist[j].requests = 0
           /\ hist[j].out = hist[i].out
           /\ (hist[i].status = "ok" => hist[i].requests = 1)

\* a get-summary run that asked the service, then the same run again served
\* the stored summary
C9_Witness ==
    \E i, j \in Ran :
        /\ i < j /\ AudioInput /\ hist[i].cli.tool = "get-summary"
        /\ hist[i].cli = hist[j].cli /\ SameCache(i, j)
        /\ hist[i].status = "ok" /\ hist[i].requests = 1
        /\ hist[j].status = "exit(0)" /\ hist[j].requests = 0
        /\ IsComplete(hist[j].out)

\* C10: an invocation with the cache directory unset or empty that finished
\* made no cache check, read or write, invoked the download or copy and the
\* engine (on an audio input) and, for get-summary, the summarization service.
C10_NoCacheAccessWhenDisabled ==
    \A i \in Ran :
        (hist[i].cli.cache_dir \in {NotGiven, ""} /\ Finished(i))
        => /\ hist[i].ops = {}
           /\ hist[i].cli.tool = "get-summary" => hist[i].requests = 1
           /\ (AudioInput \/ hist[i].cli.tool = "get-text")
              => (hist[i].downloads = 1 /\ hist[i].engine = 1)

\* C11: every get-summary run in which the summarization service returned a
\* summary while caching was enabled and the cache directory existed, on a
\* .txt input as on an audio input, ended without an error, wrote the summary
\* under its derived key and output it.
C11_SummaryPersistedThenOutput ==
    \A i \in Ran :
        (/\ hist[i].cli.tool = "get-summary"
         /\ IsComplete(hist[i].summary)
         /\ ArgsOf(i).cache_dir # ""
         /\ DirExists(RootDir(ArgsOf(i).cache_dir), dirs))
        => /\ hist[i].status = "ok"
           /\ hist[i].out = hist[i].summary
           /\ Exists(hist[i].hash_path)
           /\ files[hist[i].hash_path] = hist[i].summary

\* (HH*3600 + MM*60 + SS) * 1000 of a timestamp of one to three integer parts,
\* missing leading parts taken as 0
HMS(t) ==
    LET n == Len(t)
        SS == t[n].val
        MM == IF n >= 2 THEN t[n - 1].val ELSE 0
        HH == IF n >= 3 THEN t[n - 2].val ELSE 0
    IN (HH * 3600 + MM * 60 + SS) * 1000
IsHMS(t) == Len(t) \in 1..3 /\ \A k \in 1..Len(t) : t[k].num
Parsed == call.fn = "timestamp_to_millis" /\ ret # NoCall

\* C12: timestamp_to_millis maps every timestamp SS, MM:SS or HH:MM:SS of
\* non-negative integer parts to (HH*3600 + MM*60 + SS) * 1000 milliseconds,
\* missing leading parts being 0: "90" and "01:30" give 90000, "01:01:30"
\* gives 3690000.
C12_TimestampToMillis ==
    (Parsed /\ IsHMS(call.timestamp))
    => /\ ~ret.err
       /\ ret.ms = HMS(call.timestamp)
       /\ call.timestamp \in {<<Part(90)>>, <<Part(1), Part(30)>>} => ret.ms = 90000
       /\ call.timestamp = <<Part(1), Part(1), Part(30)>> => ret.ms = 3690000

\* "01:01:30" has been parsed
C12_Witness ==
    /\ Parsed
    /\ call.timestamp = <<Part(1), Part(1), Part(30)>>
    /\ ret.ms = 3690000

\* a timestamp that is not of the shape HH:MM:SS, MM:SS or SS
Malformed(t) == t # None /\ (Len(t) > 3 \/ \E k \in 1..Len(t) : ~t[k].num)

\* C13: a transcribe call (one whose AudioSource was entered) with a start or
\* end timestamp of the wrong shape failed with the validation error in
\* transcribe's argument check, before its cache lookup and before the engine.
C13_MalformedTimestampRejected ==
    \A i \in Ran :
        (hist[i].entered /\ (Malformed(hist[i].cli.start) \/ Malformed(hist[i].cli.end)))
        => /\ hist[i].status = "ValueError"
           /\ hist[i].at = "transcribe"
           /\ hist[i].engine = 0
           /\ hist[i].ops \cap {"transcription exists", "transcription read",
                                "transcription write"} = {}

\* the extraction of invocation i left zero or more than one audio file
Ambiguous(i) == hist[i].listed /\ hist[i].mp3_files # 1
\* invocation j is the one started next after invocation i
NextRun(i, j) == hist[j].proc = hist[i].proc /\ hist[j].run = hist[i].run + 1

\* C14: a video-audio extraction that leaves zero or more than one audio file
\* makes the acquisition fail with an error, no file being selected; no audio
\* entry is published, so the next invocation with the same link and cache
\* directory misses and extracts again.
C14_AmbiguousExtractionFails ==
    \A i \in Ran :
        Ambiguous(i)
        => /\ hist[i].status = "AssertionError"
           /\ hist[i].at = "download"
           /\ ~hist[i].entered
           /\ "audio write" \notin hist[i].ops
           /\ \A j \in Ran :
                (NextRun(i, j) /\ SameCache(i, j))
                => (~hist[j].audio_hit /\ hist[j].downloads = 1)

\* an extraction left two audio files, and the next invocation extracted again
C14_Witness ==
    \E i, j \in Ran :
        /\ hist[i].listed /\ hist[i].mp3_files = 2
        /\ hist[i].status = "AssertionError"
        /\ NextRun(i, j) /\ SameCache(i, j)
        /\ hist[j].downloads = 1 /\ ~hist[j].audio_hit

\* C15: an invocation whose input is neither an existing local path nor an
\* http/https URL fails in the acquisition with the invalid-input error,
\* whatever the cache holds (also an audio entry cached for that path while
\* the file still existed), and hands no artifact to transcription.
C15_InvalidInputRejected ==
    \A i \in Ran :
        (~hist[i].valid /\ (AudioInput \/ hist[i].cli.tool = "get-text"))
        => /\ hist[i].status = "ValueError"
           /\ hist[i].at = "download"
           /\ ~hist[i].entered
           /\ ~hist[i].transcribed
           /\ hist[i].engine = 0

\* C16: a get-summary run without a credential attempted no network call: no
\* remote download or video extraction and no summarization request were made
\* before the missing credential was reported.
C16_CredentialCheckedFirst ==
    \A i \in Ran :
        (hist[i].cli.tool = "get-summary" /\ hist[i].cli.openai_api_key = "")
        => /\ _is_url(input) => hist[i].downloads = 0
           /\ hist[i].requests = 0

\* the context length of a model of get_model's table
ContextOf(model) ==
    models_contexts[CHOOSE k \in DOMAIN models_contexts :
                        models_contexts[k].model = model].context_length
Known(model) == \E k \in DOMAIN models_contexts : models_contexts[k].model = model
Sent == call.fn = "summarize" /\ ret # NoCall /\ ret.stage = "sent"

\* C17: summarize sends the prompt only to a model whose context length holds
\* the prompt's tokens and max_tokens, whether get_model chose the model or the
\* caller named it; when no model of the table holds them, nothing is sent.
C17_ModelHoldsPrompt ==
    Sent
    => /\ Known(ret.model)
          => num_tokens(call.text, ret.model) + call.max_tokens <= ContextOf(ret.model)
       /\ Fitting(call.text, call.max_tokens) # {}

\* the audio entry of invocation i's input
AudioEntryOf(i) == AudioFile(SourceDir(ArgsOf(i).cache_dir, ArgsOf(i).input))
\* invocation i is the last one started and nothing runs
Latest(i) ==
    /\ \A p \in Procs : pc[p] = "idle"
    /\ runs[hist[i].proc] = hist[i].run

\* C18: a failed stage leaves no cache entry for its key.  After a download,
\* extraction or copy that raised there is no audio entry for the input, and
\* the next invocation misses and calls the collaborator again; after an
\* engine run that returned non-zero there is no transcription entry for that
\* start, duration and model, and the next invocation with the same arguments
\* misses and runs the engine again.
C18_FailedStageLeavesNoEntry ==
    \A i \in Ran :
        /\ (hist[i].at = "download" /\ ArgsOf(i).cache_dir # "")
           => /\ Latest(i) => ~Exists(AudioEntryOf(i))
              /\ \A j \in Ran :
                   (NextRun(i, j) /\ SameCache(i, j))
                   => /\ ~hist[j].audio_hit
                      /\ hist[j].valid => hist[j].downloads = 1
        /\ (hist[i].at = "whisper" /\ ArgsOf(i).cache_dir # "")
           => /\ Latest(i) => ~Exists(EntryOf(i))
              /\ \A j \in Ran :
                   (NextRun(i, j) /\ hist[j].cli = hist[i].cli)
                   => (~hist[j].text_hit /\ hist[j].engine = 1)

\* a download that failed, and the next invocation downloading again and
\* entering
C18_Witness ==
    \E i, j \in Ran :
        /\ hist[i].at = "download" /\ hist[i].status = "URLError"
        /\ NextRun(i, j) /\ SameCache(i, j)
        /\ hist[j].downloads = 1 /\ hist[j].entered

IsEntry(f) == f.kind \in {"audio.mp3", "transcription", "summary"}
\* a step opens for writing only an entry that does not exist, and changes
\* only the content of an entry that its own invocation has open since it
\* created it
WriteOnceStep ==
    /\ \A p \in Procs :
         (loc'[p].wfile # NoFile /\ loc'[p].wfile # loc[p].wfile)
         => ~Exists(loc'[p].wfile)
    /\ \A f \in DOMAIN files :
         (IsEntry(f) /\ files'[f] # files[f])
         => \E p \in Procs :
              /\ loc[p].wfile = f
              /\ pc[p] \in {"save_write", "cache_text_write", "cache_summary_write"}

\* C19: in a sequence of non-overlapping get-text / get-summary invocations,
\* an audio, transcription or summary entry that exists is never opened for
\* writing or modified by a later invocation: only the invocation that created
\* the entry writes it.
C19_WriteOnce == [][WriteOnceStep]_vars

\* an invocation that read an existing audio, transcription and summary entry
\* and wrote none
C19_Witness ==
    \E j \in Ran :
        /\ {"audio read", "transcription read", "summary read"} \subseteq hist[j].ops
        /\ hist[j].ops \cap {"audio write", "transcription write", "summary write"} = {}
        /\ \A f \in {AudioEntryOf(j), EntryOf(j), hist[j].hash_path} : Exists(f)

\* C20: the AudioSource of an invocation that has ended is not open: after
\* __exit__, and after an __enter__ that failed during the download, is_open
\* is false and get_audio_path raises instead of returning the path of a
\* missing or partially downloaded file.
C20_OpenOnlyWhileAcquired ==
    \A i \in Ran :
        /\ ~hist[i].is_open
        /\ get_audio_path(hist[i]).err
====
